---- MODULE Spec2Model ----
(***************************************************************************)
(* Model of the asynchronous Azure Quantum client:                         *)
(*   azure/quantum/aio/job/job.py   Job (polling with timeout)             *)
(*   azure/quantum/aio/job.py       Job (earlier variant, no timeout)      *)
(*   azure/quantum/aio/workspace.py Workspace                              *)
(*                                                                         *)
(* Time is kept exactly, as an integer number of ticks: 0.2 s is           *)
(* 2^MaxPolls ticks, so that every poll interval 0.2 * 1.5^k with          *)
(* k <= MaxPolls is an integer.                                            *)
(***************************************************************************)
EXTENDS Integers, Sequences, FiniteSets, TLC

VARIABLES
    impl,       \* which Job class the object is an instance of
    id,         \* Job.id
    remote,     \* the job's details as the remote service holds them
    details,    \* Job.details, the cached copy
    results,    \* Job.results
    call,       \* the frame of the operation in flight (or the last one finished)
    hist,       \* history of the finished operations on this Job
    ws_args,    \* arguments of the last Workspace(...) construction
    ws,         \* its outcome
    jobs,       \* the job listing of the remote service
    listed,     \* the last list_jobs call: its arguments and its result
    tasks       \* concurrent callers of one Job and their requests in flight

vars == <<impl, id, remote, details, results, call, hist, ws_args, ws,
          jobs, listed, tasks>>

jobVars  == <<impl, id, remote, details, results, call, hist>>
wsVars   == <<ws_args, ws>>
dirVars  == <<jobs, listed>>

(***************************************************************************)
(* Bounds                                                                  *)
(***************************************************************************)
MaxPolls == 14      \* loop iterations of one wait_until_completed
MaxCalls == 3       \* operations started on the Job

None == "None"

(***************************************************************************)
(* Time                                                                    *)
(***************************************************************************)
RECURSIVE Pow2(_)
Pow2(n) == IF n = 0 THEN 1 ELSE 2 * Pow2(n - 1)

Fifth == Pow2(MaxPolls)             \* 0.2 s in ticks
Secs(n) == n * 5 * Fifth            \* n seconds in ticks
Tenth == Fifth \div 2               \* 0.1 s in ticks

POLL_WAIT_SEED == Fifth             \* poll_wait = 0.2
DEFAULT_MAX_POLL_WAIT == Secs(30)   \* max_poll_wait_secs=30
DEFAULT_TIMEOUT == Secs(300)        \* get_results(timeout_secs=DEFAULT_TIMEOUT)

(***************************************************************************)
(* JobDetails                                                              *)
(***************************************************************************)
Terminal == {"Succeeded", "Failed", "Cancelled"}
JobStatus == {"Waiting", "Executing"} \cup Terminal

\* URIs are character sequences
UriPlain    == <<"h", "/", "b">>
UriSigned   == <<"h", "/", "b", "?", "s", "e", "=", "1">>
UriPathOnly == <<"h", "/", "s", "e", "=", "/", "b">>
UriResolved == <<"h", "/", "b", "?", "s", "v", "&", "s", "e", "=", "2">>
OutputUris  == {UriPlain, UriSigned, UriPathOnly}

JOB_ID == "job-1"

JobDetails(st, uri, err) ==
    [id |-> JOB_ID, status |-> st, output_data_uri |-> uri,
     error_data |-> err]

(***************************************************************************)
(* Strings                                                                 *)
(***************************************************************************)
\* s[i..j], empty when j < i
Slice(s, i, j) == [k \in 1..(j - i + 1) |-> s[i + k - 1]]

\* str.find: 0-based index of the first occurrence of sub in s, -1 if none
Find(s, sub) ==
    LET hits == {i \in 1..(Len(s) - Len(sub) + 1) :
                    Slice(s, i, i + Len(sub) - 1) = sub}
    IN  IF hits = {} THEN -1
        ELSE (CHOOSE i \in hits : \A j \in hits : i <= j) - 1

\* urlparse(uri).query: what follows the first "?", up to a "#"
urlparse_query(uri) ==
    LET q == Find(uri, <<"?">>)
        rest == IF q = -1 THEN <<>> ELSE Slice(uri, q + 2, Len(uri))
        f == Find(rest, <<"#">>)
    IN  IF f = -1 THEN rest ELSE Slice(rest, 1, f)

\* url.query.find("se=") == -1
lacks_sas_token(uri) == Find(urlparse_query(uri), <<"s", "e", "=">>) = -1

(***************************************************************************)
(* Job: construction, has_completed, backoff                               *)
(***************************************************************************)
\* Job.__init__: self.results = None
Job_init_results == None

\* has_completed without the Cancelled case
has_completed_no_cancelled(d) ==
    \/ d.status = "Succeeded"
    \/ d.status = "Failed"

has_completed(d) ==
    \/ d.status = "Succeeded"
    \/ d.status = "Failed"
    \/ d.status = "Cancelled"

\* the conditional expression that recomputes poll_wait
next_poll_wait(poll_wait, max_poll_wait_secs) ==
    IF poll_wait >= max_poll_wait_secs
    THEN max_poll_wait_secs
    ELSE (poll_wait * 3) \div 2

\* timeout_secs is not None and total_time >= timeout_secs
NoTimeout == -1     \* timeout_secs=None
\* the timeout test with > in place of >=
timed_out_strict(total_time, timeout_secs) ==
    timeout_secs # NoTimeout /\ total_time > timeout_secs

\* the timeout test without the None check
timed_out_no_none_check(total_time, timeout_secs) ==
    total_time >= timeout_secs

timed_out(total_time, timeout_secs) ==
    timeout_secs # NoTimeout /\ total_time >= timeout_secs

\* a status check that only rejects Failed
execution_failed_only_failed(d) == d.status = "Failed"

\* not self.details.status == "Succeeded"
execution_failed(d) == ~(d.status = "Succeeded")

(***************************************************************************)
(* Call frames                                                             *)
(***************************************************************************)
JobPkg    == "aio/job/job.py"
JobLegacy == "aio/job.py"

NoUri == <<>>
Coroutine == <<"coroutine">>    \* a coroutine object that was never awaited

NoError == [status |-> None, error_data |-> None]

NoJob == <<>>     \* no Job returned

IdleFrame ==
    [op |-> "none", pc |-> "idle",
     timeout_secs |-> NoTimeout, max_poll_wait_secs |-> 0,
     poll_wait |-> 0, last_poll_wait |-> 0,
     total_time |-> 0, polls |-> 0, slept |-> 0, due |-> 0,
     wait |-> "none", ttc |-> {}, start_status |-> None,
     dl_arg |-> NoUri, sas_uri |-> NoUri,
     fetches |-> 0, sas_calls |-> 0, downloads |-> 0,
     cancels |-> 0, returned_job |-> NoJob,
     outcome |-> "none", error |-> NoError, value |-> None]

\* start_status: the cached status when the operation was called (history)
NewFrame(op, pc) ==
    [IdleFrame EXCEPT !.op = op, !.pc = pc, !.start_status = details.status]

\* the frame after the operation ended with outcome o
Ended(f, o) == [f EXCEPT !.pc = "done", !.outcome = o]

CanStart ==
    /\ call.pc \in {"idle", "done"}
    /\ hist.calls < MaxCalls

\* history as it stands when a new operation starts
Started ==
    [hist EXCEPT !.calls = @ + 1,
                 !.last = <<call.op, call.outcome>>]

Timeouts == {NoTimeout, 0, Tenth, Secs(1), DEFAULT_TIMEOUT}
MaxPollWaits == {0, Secs(1), DEFAULT_MAX_POLL_WAIT}

(***************************************************************************)
(* The remote service                                                      *)
(***************************************************************************)
\* the job moves on at the service; a terminal status is final
RemoteStep ==
    /\ \/ /\ remote.status = "Waiting"
          /\ \E st \in {"Executing", "Cancelled"} :
                remote' = [remote EXCEPT !.status = st]
       \/ /\ remote.status = "Executing"
          /\ \/ \E st \in {"Succeeded", "Cancelled"} :
                   remote' = [remote EXCEPT !.status = st]
             \/ remote' = [remote EXCEPT !.status = "Failed",
                                         !.error_data = "err"]
    /\ UNCHANGED <<impl, id, details, results, call, hist, wsVars, dirVars, tasks>>

(***************************************************************************)
(* Job.submit, Job.refresh                                                 *)
(***************************************************************************)
\* submit of a job the service does not hold yet; create() answers with the
\* details the service registered, or raises
\* a submit that leaves the cached details as they were
submit_keeps_details(old, created) == old

\* self.details = job.details
submit_details(old, created) == created

Job_submit ==
    /\ CanStart
    /\ remote.status = None
    /\ \/ /\ remote' = [remote EXCEPT !.status = "Waiting"]
          /\ details' = submit_details(details, remote')
          /\ call' = Ended(NewFrame("submit", "done"), "returned")
       \/ /\ UNCHANGED <<remote, details>>
          /\ call' = Ended(NewFrame("submit", "done"), "TransportError")
    /\ hist' = Started
    /\ UNCHANGED <<impl, id, results, wsVars, dirVars, tasks>>

Job_refresh ==
    /\ CanStart
    /\ remote.status # None
    /\ details' = remote
    /\ call' = [Ended(NewFrame("refresh", "done"), "returned")
                    EXCEPT !.fetches = 1]
    /\ hist' = Started
    /\ UNCHANGED <<impl, id, remote, results, wsVars, dirVars, tasks>>

(***************************************************************************)
(* Job.wait_until_completed                                                *)
(***************************************************************************)
\* time-to-completion: the accumulated poll time at the first refresh of
\* this call that observes a terminal status (history, not program state)
Observe(f, d, t) ==
    IF f.ttc = {} /\ d.status \in Terminal THEN {t} ELSE f.ttc

\* get_results that memoizes whatever it ended with
results_after_memo_all(old, o, value) ==
    IF o = "returned" THEN value ELSE "error"

\* self.results once a get_results call ended with outcome o: no path of
\* get_results assigns it
results_after(old, o, value) == old

\* a wait that goes to its completion check without a refresh
WaitFrame_no_first_refresh(op, max_poll_wait_secs, timeout_secs) ==
    [NewFrame(op, "loop") EXCEPT !.wait = "running",
                                 !.poll_wait = POLL_WAIT_SEED,
                                 !.max_poll_wait_secs = max_poll_wait_secs,
                                 !.timeout_secs = timeout_secs]

\* the frame of a wait_until_completed awaiting its first refresh
WaitFrame(op, max_poll_wait_secs, timeout_secs) ==
    [NewFrame(op, "refresh0") EXCEPT !.wait = "running",
                                     !.max_poll_wait_secs = max_poll_wait_secs,
                                     !.timeout_secs = timeout_secs]

wait_until_completed_with(timeouts) ==
    /\ CanStart
    /\ remote.status # None
    /\ \E m \in MaxPollWaits, t \in timeouts :
          /\ impl = JobLegacy => t = NoTimeout
          /\ call' = WaitFrame("wait_until_completed", m, t)
    /\ hist' = Started
    /\ UNCHANGED <<impl, id, remote, details, results, wsVars, dirVars, tasks>>

wait_until_completed_call == wait_until_completed_with(Timeouts)

\* await self.refresh(); poll_wait = 0.2; total_time = 0.
wait_first_refresh ==
    /\ call.pc = "refresh0"
    /\ details' = remote
    /\ call' = [call EXCEPT !.pc = "loop",
                            !.poll_wait = POLL_WAIT_SEED,
                            !.total_time = 0,
                            !.fetches = @ + 1,
                            !.ttc = Observe(call, remote, 0)]
    /\ UNCHANGED <<impl, id, remote, results, hist, wsVars, dirVars, tasks>>

\* download_data of base_job: a URI that carries a SAS token is used as it
\* is, for any other a SAS URI is requested from the workspace first
download_data(f, uri) ==
    IF lacks_sas_token(uri)
    THEN [f EXCEPT !.pc = "sas_uri"]
    ELSE [f EXCEPT !.pc = "download", !.dl_arg = uri]

\* aio/job.py get_results: _get_linked_storage_sas_uri is called without
\* await, so blob_uri is the coroutine object and no request is sent
legacy_resolve(f, uri) ==
    IF lacks_sas_token(uri)
    THEN [f EXCEPT !.pc = "download", !.dl_arg = Coroutine]
    ELSE [f EXCEPT !.pc = "download", !.dl_arg = uri]

\* get_results from the status check on, up to its next await
get_results_tail(f, d) ==
    IF execution_failed(d)
    THEN Ended([f EXCEPT !.error = [status |-> d.status,
                                    error_data |-> d.error_data]],
               "RuntimeError")
    ELSE IF impl = JobPkg
         THEN download_data(f, d.output_data_uri)
         ELSE legacy_resolve(f, d.output_data_uri)

\* the loop head: while not self.has_completed(): ... up to the next await;
\* due is the time the loop was meant to be suspended for, slept the time it
\* was (history)
wait_loop_when(more) ==
    /\ call.pc = "loop"
    /\ IF has_completed(details)
       THEN call' = IF call.op = "get_results"
                    THEN get_results_tail([call EXCEPT !.wait = "returned"],
                                          details)
                    ELSE Ended([call EXCEPT !.wait = "returned"], "returned")
       ELSE IF timed_out(call.total_time, call.timeout_secs)
       THEN call' = Ended([call EXCEPT !.wait = "TimeoutError"],
                          "TimeoutError")
       ELSE /\ more
            /\ call' = IF impl = JobPkg
                        \* asyncio.sleep(poll_wait) is not awaited
                        THEN [call EXCEPT !.pc = "refresh",
                                          !.due = @ + call.poll_wait,
                                          !.total_time = @ + call.poll_wait]
                        ELSE [call EXCEPT !.pc = "sleep",
                                          !.due = @ + call.poll_wait]
    /\ results' = IF call.op = "get_results" /\ call'.pc = "done"
                  THEN results_after(results, call'.outcome, call'.value)
                  ELSE results
    /\ UNCHANGED <<impl, id, remote, details, hist, wsVars, dirVars, tasks>>

\* the loop head, for as many iterations as the bound allows
wait_loop == wait_loop_when(call.polls < MaxPolls)

\* aio/job.py: await asyncio.sleep(poll_wait)
wait_sleep ==
    /\ call.pc = "sleep"
    /\ call' = [call EXCEPT !.pc = "refresh", !.slept = @ + call.poll_wait]
    /\ UNCHANGED <<impl, id, remote, details, results, hist, wsVars, dirVars, tasks>>

\* await self.refresh(); poll_wait = ...
wait_refresh_counting(polls, fetches) ==
    /\ call.pc = "refresh"
    /\ details' = remote
    /\ call' = [call EXCEPT
                    !.pc = "loop",
                    !.poll_wait = next_poll_wait(@, call.max_poll_wait_secs),
                    !.last_poll_wait = call.poll_wait,
                    !.polls = polls,
                    !.fetches = fetches,
                    !.ttc = Observe(call, remote, call.total_time)]
    /\ UNCHANGED <<impl, id, remote, results, hist, wsVars, dirVars, tasks>>

wait_refresh == wait_refresh_counting(call.polls + 1, call.fetches + 1)

(***************************************************************************)
(* Job.get_results                                                         *)
(***************************************************************************)
get_results_call ==
    /\ CanStart
    /\ remote.status # None
    /\ \E t \in Timeouts :
          /\ impl = JobLegacy => t = NoTimeout
          /\ call' =
               IF results # None
               THEN Ended([NewFrame("get_results", "done")
                              EXCEPT !.value = results], "returned")
               ELSE IF ~has_completed(details)
               THEN WaitFrame("get_results", DEFAULT_MAX_POLL_WAIT, t)
               ELSE get_results_tail(
                        [NewFrame("get_results", "status")
                            EXCEPT !.timeout_secs = t], details)
    /\ hist' = [Started EXCEPT !.gr_ok =
                    IF call'.outcome = "returned" THEN @ + 1 ELSE @]
    /\ results' = IF call'.pc = "done"
                  THEN results_after(results, call'.outcome, call'.value)
                  ELSE results
    /\ UNCHANGED <<impl, id, remote, details, wsVars, dirVars, tasks>>

\* Workspace._get_linked_storage_sas_uri, awaited
sas_uri ==
    /\ call.pc = "sas_uri"
    /\ call' = [call EXCEPT !.pc = "download",
                            !.sas_calls = @ + 1,
                            !.sas_uri = UriResolved,
                            !.dl_arg = UriResolved]
    /\ UNCHANGED <<impl, id, remote, details, results, hist, wsVars, dirVars, tasks>>

\* the blob download and json.loads; the decoded value is returned and
\* self.results is not assigned
download ==
    /\ call.pc = "download"
    /\ \/ /\ call.dl_arg = Coroutine
          \* BlobClient.from_blob_url rejects what is not a string
          /\ call' = Ended(call, "ValueError")
          /\ hist' = hist
       \/ /\ call.dl_arg # Coroutine
          /\ call' = Ended([call EXCEPT !.downloads = @ + 1,
                                        !.value = "decoded"], "returned")
          /\ hist' = [hist EXCEPT !.gr_ok = @ + 1]
       \/ /\ call.dl_arg # Coroutine
          /\ call' = Ended(call, "TransportError")
          /\ hist' = hist
    /\ results' = results_after(results, call'.outcome, call'.value)
    /\ UNCHANGED <<impl, id, remote, details, wsVars, dirVars, tasks>>

(***************************************************************************)
(* Workspace.cancel_job                                                    *)
(***************************************************************************)
\* Job(self, details) of a Job in hand, as the Workspace builds it
Job(d) == [details |-> d, id |-> d.id, results |-> Job_init_results]

\* a cancel_job that hands back the details of the Job passed in
cancel_job_returns_passed(job_details, fetched) == Job(job_details)

\* details = await self._client.jobs.get(job.id); return Job(self, details)
cancel_job_returns(job_details, fetched) == Job(fetched)

cancel_job_call ==
    /\ CanStart
    /\ remote.status # None
    /\ call' = NewFrame("cancel_job", "cancel")
    /\ hist' = Started
    /\ UNCHANGED <<impl, id, remote, details, results, wsVars, dirVars, tasks>>

\* await self._client.jobs.cancel(job.details.id): the service cancels the
\* job at once, or later, or not at all when it is terminal; or the request
\* fails
cancel_request ==
    /\ call.pc = "cancel"
    /\ \/ /\ call' = [call EXCEPT !.pc = "cancel_fetch", !.cancels = @ + 1]
          /\ \/ remote' = remote
             \/ /\ remote.status \notin Terminal
                /\ remote' = [remote EXCEPT !.status = "Cancelled"]
       \/ /\ call' = Ended(call, "TransportError")
          /\ remote' = remote
    /\ UNCHANGED <<impl, id, details, results, hist, wsVars, dirVars, tasks>>

cancel_fetch ==
    /\ call.pc = "cancel_fetch"
    /\ call' = Ended([call EXCEPT
                         !.fetches = @ + 1,
                         !.returned_job =
                             <<cancel_job_returns(details, remote)>>],
                     "returned")
    /\ UNCHANGED <<impl, id, remote, details, results, hist, wsVars, dirVars, tasks>>

(***************************************************************************)
(* Specification of a Job                                                  *)
(***************************************************************************)
NoWorkspace == [outcome |-> "none"]

NoListing == [pc |-> "none"]
NoTasks == <<>>

\* the variables of the other specifications, at rest
DirAtRest == jobs = <<>> /\ listed = NoListing
TasksAtRest == tasks = NoTasks

Init ==
    /\ impl \in {JobPkg, JobLegacy}
    /\ \E st \in {None} \cup JobStatus, uri \in OutputUris :
          remote = JobDetails(st, uri, IF st = "Failed" THEN "err" ELSE None)
    /\ details = remote
    /\ id = details.id
    /\ DirAtRest
    /\ TasksAtRest
    /\ results = Job_init_results
    /\ call = IdleFrame
    /\ hist = [calls |-> 0, last |-> <<"none", "none">>, gr_ok |-> 0]
    /\ ws_args = NoWorkspace
    /\ ws = NoWorkspace

Next ==
    \/ RemoteStep
    \/ Job_submit
    \/ Job_refresh
    \/ wait_until_completed_call
    \/ wait_first_refresh
    \/ wait_loop
    \/ wait_sleep
    \/ wait_refresh
    \/ get_results_call
    \/ sas_uri
    \/ download
    \/ cancel_job_call
    \/ cancel_request
    \/ cancel_fetch

Spec == Init /\ [][Next]_vars

(***************************************************************************)
(* wait_until_completed of aio/job/job.py with a timeout, run for as long  *)
(* as its loop runs: every refresh is answered, the counters of loop       *)
(* iterations stop at MaxPolls                                             *)
(***************************************************************************)
Counted(n) == IF n < MaxPolls THEN n + 1 ELSE n

wait_until_completed_finite == wait_until_completed_with(Timeouts \ {NoTimeout})

poll_loop == wait_loop_when(TRUE)

poll_refresh == wait_refresh_counting(Counted(call.polls), Counted(call.fetches))

LiveInit ==
    /\ impl = JobPkg
    /\ \E st \in JobStatus :
          remote = JobDetails(st, UriPlain, IF st = "Failed" THEN "err" ELSE None)
    /\ details = remote
    /\ id = details.id
    /\ results = Job_init_results
    /\ call = IdleFrame
    /\ hist = [calls |-> 0, last |-> <<"none", "none">>, gr_ok |-> 0]
    /\ ws_args = NoWorkspace
    /\ ws = NoWorkspace
    /\ DirAtRest
    /\ TasksAtRest

LiveNext ==
    \/ RemoteStep
    \/ wait_until_completed_finite
    \/ wait_first_refresh
    \/ poll_loop
    \/ poll_refresh

\* every refresh returns and the loop goes on whenever it can
LiveSpec ==
    /\ LiveInit
    /\ [][LiveNext]_vars
    /\ WF_vars(wait_first_refresh)
    /\ WF_vars(poll_loop)
    /\ WF_vars(poll_refresh)

(***************************************************************************)
(* Refreshes of one Job in flight at the same time                         *)
(***************************************************************************)
MaxTasks == 2       \* tasks that refresh the same Job

NoDetails == JobDetails(None, NoUri, None)

IdleTask == [pc |-> "idle", resp |-> NoDetails, issued_completed |-> FALSE]

\* a get_job that answers with the job as it was submitted
get_job_as_submitted(r) ==
    Job([r EXCEPT !.status = "Waiting", !.error_data = None])

\* details = await self._client.jobs.get(job_id); return Job(self, details)
get_job(r) == Job(r)

\* a task calls refresh(): the request for the details leaves;
\* issued_completed records has_completed() at that moment (history)
refresh_send ==
    /\ \E i \in DOMAIN tasks :
          /\ tasks[i].pc \in {"idle", "done"}
          /\ tasks' = [tasks EXCEPT ![i] =
                          [pc |-> "sent", resp |-> NoDetails,
                           issued_completed |-> has_completed(details)]]
    /\ UNCHANGED <<jobVars, wsVars, dirVars>>

\* the service answers the request with the details it holds then
refresh_serve ==
    /\ \E i \in DOMAIN tasks :
          /\ tasks[i].pc = "sent"
          /\ tasks' = [tasks EXCEPT ![i].pc = "replied",
                                    ![i].resp = get_job(remote).details]
    /\ UNCHANGED <<jobVars, wsVars, dirVars>>

\* the awaiting task resumes: self.details = (...).details
refresh_apply ==
    /\ \E i \in DOMAIN tasks :
          /\ tasks[i].pc = "replied"
          /\ details' = tasks[i].resp
          /\ tasks' = [tasks EXCEPT ![i].pc = "done"]
    /\ UNCHANGED <<impl, id, remote, results, call, hist, wsVars, dirVars>>

ConcInit ==
    /\ impl = JobPkg
    /\ \E st \in JobStatus :
          remote = JobDetails(st, UriPlain, IF st = "Failed" THEN "err" ELSE None)
    /\ details = remote
    /\ id = details.id
    /\ results = Job_init_results
    /\ call = IdleFrame
    /\ hist = [calls |-> 0, last |-> <<"none", "none">>, gr_ok |-> 0]
    /\ ws_args = NoWorkspace
    /\ ws = NoWorkspace
    /\ DirAtRest
    /\ tasks = [i \in 1..MaxTasks |-> IdleTask]

ConcNext ==
    \/ RemoteStep
    \/ refresh_send
    \/ refresh_serve
    \/ refresh_apply

ConcSpec == ConcInit /\ [][ConcNext]_vars

(***************************************************************************)
(* Workspace.__init__                                                      *)
(*                                                                         *)
(* A string is a sequence of tokens: single characters, and the three      *)
(* literal segments of a resource ID, each one token (every segment starts *)
(* and ends with "/", which no capture group accepts, so a segment can     *)
(* only be matched whole).                                                 *)
(***************************************************************************)
MaxCompLen == 1     \* length of a component placed in a resource ID

NoneS == <<None>>   \* Python None where a string is expected

LitSub == "/subscriptions/"
LitRg  == "/resourceGroups/"
LitWs  == "/providers/Microsoft.Quantum/Workspaces/"
Literals == {LitSub, LitRg, LitWs}

\* str.lower of a token
Lower(tok) ==
    CASE tok = "/SUBSCRIPTIONS/" -> "/subscriptions/"
      [] tok = "/RESOURCEGROUPS/" -> "/resourcegroups/"
      [] tok = "/PROVIDERS/MICROSOFT.QUANTUM/WORKSPACES/" ->
             "/providers/microsoft.quantum/workspaces/"
      [] tok = LitSub -> "/subscriptions/"
      [] tok = LitRg -> "/resourcegroups/"
      [] tok = LitWs -> "/providers/microsoft.quantum/workspaces/"
      [] tok = "E" -> "e"
      [] tok = "A" -> "a"
      [] OTHER -> tok

\* a literal of the pattern compared without re.IGNORECASE
lit_match_case_sensitive(tok, lit) == tok = lit

\* a literal of the pattern against a token, under re.IGNORECASE
lit_match(tok, lit) == Lower(tok) = Lower(lit)

\* [a-fA-F0-9-]
IsHexChar(tok) == tok \in {"a", "A", "-"}

IsSpace(tok) == tok \in {" ", "\n"}
HasSlash(tok) == tok = "/" \/ Lower(tok) \in {Lower(l) : l \in Literals}

\* [^\s/]
IsNameChar(tok) == ~IsSpace(tok) /\ ~HasSlash(tok)

\* membership in a character class of the pattern
InClass(cls, tok) ==
    IF cls = "hex" THEN IsHexChar(tok) ELSE IsNameChar(tok)

\* the index of the last token of the longest run s[i..] within the class
\* (i - 1 when the run is empty): a greedy [...]*
SpanEnd(s, i, cls) ==
    LET stops == {j \in i..Len(s) : ~InClass(cls, s[j])}
    IN  IF stops = {} THEN Len(s)
        ELSE (CHOOSE j \in stops : \A k \in stops : j <= k) - 1

NoMatch == [matched |-> FALSE, groups |-> <<>>]

\* re.search(regex, resource_id, re.IGNORECASE); $ matches at the end of the
\* string and before a newline that ends it
re_search(rid) ==
    LET n  == Len(rid)
        e1 == SpanEnd(rid, 2, "hex")
        e2 == SpanEnd(rid, e1 + 2, "name")
        e3 == SpanEnd(rid, e2 + 2, "name")
    IN  IF /\ n >= 1 /\ lit_match(rid[1], LitSub)
           /\ e1 + 1 <= n /\ lit_match(rid[e1 + 1], LitRg)
           /\ e2 + 1 <= n /\ lit_match(rid[e2 + 1], LitWs)
           /\ \/ e3 = n
              \/ e3 + 1 = n /\ rid[n] = "\n"
        THEN [matched |-> TRUE,
              groups |-> <<Slice(rid, 2, e1), Slice(rid, e1 + 2, e2),
                           Slice(rid, e2 + 2, e3)>>]
        ELSE NoMatch

\* Python's "not x" for an optional string
Falsy(x) == x = NoneS \/ x = <<>>

\* the completeness test without the name
not_fully_specified_no_name(subscription_id, resource_group, name) ==
    Falsy(subscription_id) \/ Falsy(resource_group)

\* not subscription_id or not resource_group or not name
not_fully_specified(subscription_id, resource_group, name) ==
    Falsy(subscription_id) \/ Falsy(resource_group) \/ Falsy(name)

\* "".join(location.split()).lower()
normalize_location(location) ==
    LET kept == SelectSeq(location, LAMBDA c : ~IsSpace(c))
    IN  [i \in 1..Len(kept) |-> Lower(kept[i])]

NoClient == [subscription_id |-> NoneS, resource_group_name |-> NoneS,
             workspace_name |-> NoneS, base_url |-> NoneS]

ConstructionError(message) ==
    [outcome |-> "ValueError", message |-> message,
     subscription_id |-> NoneS, resource_group |-> NoneS, name |-> NoneS,
     location |-> NoneS, credentials |-> None, client |-> NoClient]

\* Workspace.__init__ with credential=None
Workspace_init(subscription_id, resource_group, name, resource_id, location) ==
    LET m   == IF resource_id # NoneS THEN re_search(resource_id) ELSE NoMatch
        sub == IF m.matched THEN m.groups[1] ELSE subscription_id
        rg  == IF m.matched THEN m.groups[2] ELSE resource_group
        nm  == IF m.matched THEN m.groups[3] ELSE name
    IN  IF not_fully_specified(sub, rg, nm)
        THEN ConstructionError("workspace not fully specified")
        ELSE IF Falsy(location)
        THEN ConstructionError("no associated location")
        ELSE [outcome |-> "ok", message |-> None,
              subscription_id |-> sub, resource_group |-> rg, name |-> nm,
              location |-> normalize_location(location),
              credentials |-> "_DefaultAzureCredential",
              client |-> [subscription_id |-> sub,
                          resource_group_name |-> rg,
                          workspace_name |-> nm,
                          base_url |-> normalize_location(location)]]

(***************************************************************************)
(* Specification of Workspace construction                                 *)
(***************************************************************************)
CompChars == {"a", "z", "/", " "}

RECURSIVE StringsUpTo(_)
StringsUpTo(n) ==
    IF n = 0 THEN {<<>>}
    ELSE LET shorter == StringsUpTo(n - 1)
         IN  shorter \cup {Append(x, c) : x \in shorter, c \in CompChars}

Components == StringsUpTo(MaxCompLen)

Upper(lit) ==
    CASE lit = LitSub -> "/SUBSCRIPTIONS/"
      [] lit = LitRg -> "/RESOURCEGROUPS/"
      [] lit = LitWs -> "/PROVIDERS/MICROSOFT.QUANTUM/WORKSPACES/"

\* how the caller writes the resource ID of the components t
Forms == {"none", "exact", "upper", "newline", "partial"}

ResourceId(form, t) ==
    CASE form = "none" -> NoneS
      [] form = "exact" ->
            <<LitSub>> \o t[1] \o <<LitRg>> \o t[2] \o <<LitWs>> \o t[3]
      [] form = "upper" ->
            <<Upper(LitSub)>> \o t[1] \o <<Upper(LitRg)>> \o t[2]
                \o <<Upper(LitWs)>> \o t[3]
      [] form = "newline" ->
            <<LitSub>> \o t[1] \o <<LitRg>> \o t[2] \o <<LitWs>> \o t[3]
                \o <<"\n">>
      [] form = "partial" ->
            <<LitSub>> \o t[1] \o <<LitRg>> \o t[2]

ExplicitTriples ==
    {<<NoneS, NoneS, NoneS>>,
     <<(<<"a">>), (<<"z">>), (<<"z">>)>>,
     <<(<<"a">>), (<<"z">>), (<<>>)>>,
     <<NoneS, (<<"z">>), (<<"z">>)>>}

Locations == {NoneS, <<>>, <<"E", " ", "e">>, <<" ">>}

WsInit ==
    /\ impl = JobPkg
    /\ remote = JobDetails("Waiting", UriPlain, None)
    /\ details = remote
    /\ id = details.id
    /\ DirAtRest
    /\ TasksAtRest
    /\ results = Job_init_results
    /\ call = IdleFrame
    /\ hist = [calls |-> 0, last |-> <<"none", "none">>, gr_ok |-> 0]
    /\ ws_args = NoWorkspace
    /\ ws = NoWorkspace

Workspace_construct ==
    /\ ws = NoWorkspace
    /\ \E form \in Forms, t \in Components \X Components \X Components,
          e \in ExplicitTriples, location \in Locations :
          /\ form = "none" => t = <<(<<>>), (<<>>), (<<>>)>>
          /\ ws_args' = [form |-> form, parts |-> t,
                         subscription_id |-> e[1], resource_group |-> e[2],
                         name |-> e[3],
                         resource_id |-> ResourceId(form, t),
                         location |-> location]
          /\ ws' = Workspace_init(e[1], e[2], e[3], ResourceId(form, t),
                                  location)
    /\ UNCHANGED <<jobVars, dirVars, tasks>>

WsNext == Workspace_construct

WorkspaceSpec == WsInit /\ [][WsNext]_vars

(***************************************************************************)
(* Workspace.list_jobs                                                     *)
(***************************************************************************)
MaxJobs == 3        \* jobs in the remote listing

NoDate == -1        \* created_after=None

\* FilteredJob.matches_filter: every filter that is given must hold
matches_filter(job, name_match, status, created_after) ==
    /\ name_match = NoneS \/ Find(job.details.name, name_match) # -1
    /\ status = None \/ job.details.status = status
    /\ created_after = NoDate \/ job.details.creation_time >= created_after

\* a listing that puts each match in front of the earlier ones
keep_prepend(result, job) == <<job>> \o result

\* result.append(deserialized_job)
keep(result, job) == Append(result, job)

\* async for j in jobs: ... ; the listing is consumed front to back
RECURSIVE list_jobs_loop(_, _, _, _, _)
list_jobs_loop(rest, result, name_match, status, created_after) ==
    IF rest = <<>> THEN result
    ELSE LET deserialized_job == Job(Head(rest))
         IN  list_jobs_loop(
                 Tail(rest),
                 IF matches_filter(deserialized_job, name_match, status,
                                   created_after)
                 THEN keep(result, deserialized_job)
                 ELSE result,
                 name_match, status, created_after)

list_jobs(listing, name_match, status, created_after) ==
    list_jobs_loop(listing, <<>>, name_match, status, created_after)

JobNames == {<<"a">>, <<"a", "b">>}
ListedDetails ==
    {[id |-> JOB_ID, name |-> n, status |-> st, creation_time |-> t] :
        n \in JobNames, st \in {"Waiting", "Succeeded"}, t \in {1, 2}}

NameMatches == {NoneS, <<"a">>, <<"b">>}
StatusFilters == {None, "Waiting", "Succeeded"}
CreatedAfters == {NoDate, 1, 2}

\* a job is created at the service
RemoteJobCreated ==
    /\ Len(jobs) < MaxJobs
    /\ listed = NoListing
    /\ \E d \in ListedDetails : jobs' = Append(jobs, d)
    /\ UNCHANGED <<jobVars, wsVars, listed, tasks>>

Workspace_list_jobs ==
    /\ listed = NoListing
    /\ \E name_match \in NameMatches, status \in StatusFilters,
          created_after \in CreatedAfters :
          listed' = [pc |-> "done", listing |-> jobs,
                     name_match |-> name_match, status |-> status,
                     created_after |-> created_after,
                     result |-> list_jobs(jobs, name_match, status,
                                          created_after)]
    /\ UNCHANGED <<jobVars, wsVars, jobs, tasks>>

DirInit ==
    /\ impl = JobPkg
    /\ remote = JobDetails("Waiting", UriPlain, None)
    /\ details = remote
    /\ id = details.id
    /\ results = Job_init_results
    /\ call = IdleFrame
    /\ hist = [calls |-> 0, last |-> <<"none", "none">>, gr_ok |-> 0]
    /\ ws_args = NoWorkspace
    /\ ws = NoWorkspace
    /\ DirAtRest
    /\ TasksAtRest

DirNext == RemoteJobCreated \/ Workspace_list_jobs

DirSpec == DirInit /\ [][DirNext]_vars

(***************************************************************************)
(* Properties of Job                                                       *)
(***************************************************************************)
WaitOver == call.wait \in {"returned", "TimeoutError"}

WithinBudget ==
    /\ call.ttc # {}
    /\ \/ call.timeout_secs = NoTimeout
       \/ \A t \in call.ttc : t < call.timeout_secs

\* C1: once a refresh of a wait_until_completed call has observed a terminal
\* status at an accumulated poll time below timeout_secs (or with
\* timeout_secs = None), the call does not raise: its next step is the
\* normal return, and the cached status is terminal from then on.
C1_WaitReturnsWhenCompleted ==
    /\ [](WithinBudget =>
            /\ details.status \in Terminal
            /\ \/ call.wait = "running" /\ call.pc = "loop"
               \/ call.wait = "returned")
    /\ [][(WithinBudget /\ call.pc = "loop" /\ call' # call)
            => call'.wait = "returned"]_vars

C1_Witness ==
    /\ call.op = "wait_until_completed"
    /\ call.outcome = "returned"
    /\ call.timeout_secs = Secs(1)
    /\ call.ttc = {POLL_WAIT_SEED}
    /\ details.status = "Cancelled"

\* C2 as stated: with timeout_secs smaller than the time-to-completion the
\* wait ends with TimeoutError and no blob is downloaded.
C2_TimeoutBelowTimeToCompletion ==
    (/\ WaitOver
     /\ call.timeout_secs # NoTimeout
     /\ \E t \in call.ttc : call.timeout_secs < t)
    => (call.wait = "TimeoutError" /\ call.downloads = 0)

\* C2 amended: when a completion check finds the cached status non-terminal
\* and the accumulated poll time is >= timeout_secs, the wait ends with
\* TimeoutError there; the operation that drove the wait ends with it and
\* has asked for no SAS URI and downloaded no blob.
C2_TimeoutAtNonTerminalCheck ==
    /\ [][(/\ call.pc = "loop"
            /\ details.status \notin Terminal
            /\ call.timeout_secs # NoTimeout
            /\ call.total_time >= call.timeout_secs
            /\ call' # call)
           => call'.wait = "TimeoutError"]_vars
    /\ [](call.wait = "TimeoutError" =>
            /\ call.pc = "done"
            /\ call.outcome = "TimeoutError"
            /\ call.downloads = 0
            /\ call.sas_calls = 0
            /\ call.dl_arg = NoUri)

C2_Witness ==
    /\ call.op = "get_results"
    /\ call.outcome = "TimeoutError"
    /\ call.timeout_secs = Secs(1)
    /\ call.total_time > call.timeout_secs

\* C3 as stated: a successful get_results that follows a successful
\* get_results makes no remote call at all.
C3_SecondGetResultsMemoized ==
    (/\ call.op = "get_results"
     /\ call.outcome = "returned"
     /\ hist.last = <<"get_results", "returned">>)
    => (call.downloads = 0 /\ call.sas_calls = 0 /\ call.fetches = 0)

\* C4: a get_results that finds the status Failed or Cancelled, from the
\* cached details or after its wait, has ended with RuntimeError carrying
\* that status and the error data, with no SAS request and no download.
C4_FailedJobRaises ==
    (/\ call.op = "get_results"
     /\ call.wait \in {"none", "returned"}
     /\ call.pc # "refresh0"
     /\ details.status \in {"Failed", "Cancelled"})
    => /\ call.pc = "done"
       /\ call.outcome = "RuntimeError"
       /\ call.error = [status |-> details.status,
                        error_data |-> details.error_data]
       /\ call.sas_calls = 0
       /\ call.downloads = 0
       /\ call.dl_arg = NoUri

C4_Witness ==
    /\ call.op = "get_results"
    /\ call.wait = "returned"
    /\ call.outcome = "RuntimeError"
    /\ call.error = [status |-> "Cancelled", error_data |-> None]

\* C5 as stated: with max_poll_wait_secs = 30 every recomputed poll interval
\* is at least the interval before it.
C5_BackoffMonotone ==
    (/\ call.max_poll_wait_secs = DEFAULT_MAX_POLL_WAIT
     /\ call.polls > 0)
    => call.poll_wait >= call.last_poll_wait

Min(a, b) == IF a <= b THEN a ELSE b

\* C6 as stated: every recomputed poll interval is
\* min(previous * 1.5, max_poll_wait_secs), hence at most max_poll_wait_secs.
C6_BackoffClamped ==
    call.polls > 0
    => /\ call.poll_wait = Min((call.last_poll_wait * 3) \div 2,
                               call.max_poll_wait_secs)
       /\ call.poll_wait <= call.max_poll_wait_secs

\* C7 as stated: when get_results hands a URI to the blob download, a URI
\* that carries se= is handed over as it is and no SAS URI was requested;
\* otherwise exactly one SAS request has completed and its answer is what
\* is handed over.
C7_SasResolution ==
    (/\ call.op = "get_results"
     /\ \/ call.pc = "download"
        \/ call.pc = "done" /\ call.dl_arg # NoUri)
    => IF ~lacks_sas_token(details.output_data_uri)
       THEN /\ call.dl_arg = details.output_data_uri
            /\ call.sas_calls = 0
       ELSE /\ call.sas_calls = 1
            /\ call.sas_uri # NoUri
            /\ call.dl_arg = call.sas_uri

\* C8: results is non-null only after a get_results that returned with
\* status Succeeded, and no step other than such a return changes it:
\* refresh, submit, wait_until_completed and a get_results that raises
\* leave it as it is.
C8_ResultsOnlyFromSuccess ==
    /\ [](results # None => hist.gr_ok > 0)
    /\ [][results' # results
            => /\ call'.op = "get_results"
               /\ call'.outcome = "returned"
               /\ details.status = "Succeeded"]_vars

C8_Witness ==
    /\ hist.last = <<"get_results", "RuntimeError">>
    /\ call.op = "refresh"
    /\ call.pc = "done"
    /\ details.status = "Failed"
    /\ results = None

\* C13 as stated: whenever a wait has come back from the sleep of a loop
\* iteration, it was suspended for the poll_wait of every iteration so far:
\* each later fetch is preceded by a completed sleep of the current poll_wait.
C13_SleepsBetweenFetches ==
    (call.wait # "none" /\ call.pc \in {"refresh", "loop", "done"})
    => call.slept = call.due

\* C14 as stated: a wait that raised TimeoutError under a timeout_secs below
\* the 0.2 seed interval has made exactly one status fetch and has not slept.
C14_SmallTimeoutOneFetch ==
    (/\ call.wait = "TimeoutError"
     /\ call.timeout_secs # NoTimeout
     /\ call.timeout_secs < POLL_WAIT_SEED)
    => (call.fetches = 1 /\ call.polls = 0 /\ call.slept = 0)

\* C14 amended: with timeout_secs = 0 a wait never enters a loop iteration:
\* it makes one status fetch at most, and when it raised TimeoutError it has
\* made exactly one and has not slept.
C14_ZeroTimeoutOneFetch ==
    (call.wait # "none" /\ call.timeout_secs = 0)
    => /\ call.pc \notin {"refresh", "sleep"}
       /\ call.polls = 0
       /\ call.fetches <= 1
       /\ call.wait = "TimeoutError"
             => (call.fetches = 1 /\ call.slept = 0 /\ call.due = 0)

C14_Witness ==
    /\ call.op = "wait_until_completed"
    /\ call.wait = "TimeoutError"
    /\ call.timeout_secs = 0
    /\ call.fetches = 1

\* C15: a wait raises TimeoutError only with a non-terminal cached status,
\* a timeout_secs that is not None and accumulated poll intervals >=
\* timeout_secs; a completion check that finds a terminal status returns
\* normally whatever the accumulated time.
C15_TimeoutOnlyWhenDueAndNotTerminal ==
    /\ [](call.wait = "TimeoutError" =>
            /\ details.status \notin Terminal
            /\ call.timeout_secs # NoTimeout
            /\ call.total_time >= call.timeout_secs)
    /\ [][(/\ call.pc = "loop"
            /\ details.status \in Terminal
            /\ call' # call)
           => call'.wait = "returned"]_vars

C15_Witness ==
    /\ call.wait = "returned"
    /\ call.polls > 0
    /\ call.timeout_secs # NoTimeout
    /\ call.total_time >= call.timeout_secs

\* C16: a wait has made a status fetch before its first completion check,
\* also when the cached status was terminal at the call; get_results called
\* with a terminal cached status makes no status fetch and runs no wait.
C16_FirstRefreshUnconditional ==
    /\ (call.wait # "none" /\ call.pc # "refresh0") => call.fetches >= 1
    /\ (call.op = "get_results" /\ call.start_status \in Terminal)
         => (call.fetches = 0 /\ call.wait = "none")

C16_Witness ==
    /\ call.op = "wait_until_completed"
    /\ call.start_status \in Terminal
    /\ call.wait = "returned"
    /\ call.fetches = 1

\* C17: a submit whose create call succeeds leaves the cached details equal
\* to the details the service returned; a submit whose create call fails
\* ends with that error and leaves details, id and results as they were.
C17_SubmitReplacesDetailsOnSuccess ==
    [][(call'.op = "submit" /\ hist'.calls = hist.calls + 1)
       => IF call'.outcome = "returned"
          THEN /\ details' = remote'
               /\ details'.status = "Waiting"
               /\ details' # details
          ELSE /\ call'.outcome = "TransportError"
               /\ details' = details
               /\ id' = id
               /\ results' = results]_vars

C17_Witness ==
    /\ call.op = "submit"
    /\ call.outcome = "TransportError"
    /\ details.status = None
    /\ remote.status = None

\* C18: cancel_job never changes the cached details of the Job passed in;
\* it fetches details only after the cancel request has completed; the Job
\* it returns holds the details the service had at that fetch.
C18_CancelThenFetch ==
    [][call'.op = "cancel_job"
       => /\ details' = details
          /\ call'.fetches > 0 => call'.cancels = 1
          /\ (call.pc = "cancel" /\ call' # call)
                => (call'.fetches = 0 /\ call'.returned_job = NoJob)
          /\ (call.pc = "cancel_fetch" /\ call' # call)
                => /\ call'.outcome = "returned"
                   /\ call'.returned_job = <<Job(remote)>>]_vars

C18_Witness ==
    /\ call.op = "cancel_job"
    /\ call.outcome = "returned"
    /\ call.returned_job # NoJob
    /\ call.returned_job[1].details.status = "Executing"
    /\ details.status = "Waiting"

\* C19 as stated: a wait_until_completed with a finite timeout_secs, whose
\* refreshes all return, ends (normal return or TimeoutError) whatever the
\* job does and whatever the non-negative max_poll_wait_secs.
C19_FiniteTimeoutTerminates ==
    (call.wait = "running" /\ call.timeout_secs # NoTimeout) ~> WaitOver


(***************************************************************************)
(* Properties of Workspace                                                 *)
(***************************************************************************)
Constructed == ws # NoWorkspace

\* the components fit the capture groups of the pattern
FitsPattern(t) ==
    /\ \A i \in 1..Len(t[1]) : IsHexChar(t[1][i])
    /\ \A i \in 1..Len(t[2]) : t[2][i] \notin {"/", " ", "\n"}
    /\ \A i \in 1..Len(t[3]) : t[3][i] \notin {"/", " ", "\n"}

\* the resource ID was written from components that fit the pattern, in any
\* letter case of the fixed segments, with or without a final newline
IdMatches ==
    /\ ws_args.form \in {"exact", "upper", "newline"}
    /\ FitsPattern(ws_args.parts)

Identity(w) == <<w.outcome, w.subscription_id, w.resource_group, w.name,
                 w.location>>

\* C9: a Workspace constructed from a resource ID that matches the pattern
\* has the identity (or fails as) the Workspace constructed from the ID's
\* three components passed explicitly with the same location.
C9_ResourceIdSameAsTriple ==
    (Constructed /\ IdMatches)
    => Identity(ws) =
       Identity(Workspace_init(ws_args.parts[1], ws_args.parts[2],
                               ws_args.parts[3], NoneS, ws_args.location))

C9_Witness ==
    /\ Constructed
    /\ ws_args.form = "upper"
    /\ ws_args.subscription_id = NoneS
    /\ ws.outcome = "ok"
    /\ ws.name = <<"z">>
    /\ ws.subscription_id = <<"a">>
    /\ ws.location = <<"e", "e">>

\* neither the resource ID nor the explicit arguments give three non-empty
\* components
Unresolved ==
    IF IdMatches
    THEN \E i \in 1..3 : ws_args.parts[i] = <<>>
    ELSE \/ Falsy(ws_args.subscription_id)
         \/ Falsy(ws_args.resource_group)
         \/ Falsy(ws_args.name)

\* C10: construction fails with ValueError, with no credential and no
\* client created, whenever the identity is unresolved or the location is
\* None or empty.
C10_FailsFast ==
    (Constructed /\ (Unresolved \/ Falsy(ws_args.location)))
    => /\ ws.outcome = "ValueError"
       /\ ws.credentials = None
       /\ ws.client = NoClient

C10_Witness ==
    /\ Constructed
    /\ ws_args.form = "exact"
    /\ FitsPattern(ws_args.parts)
    /\ ws_args.parts[3] = <<>>
    /\ ~Falsy(ws_args.name)
    /\ ~Falsy(ws_args.subscription_id)
    /\ ~Falsy(ws_args.location)
    /\ ws.outcome = "ValueError"

\* C11 as stated: with a resource ID given, the explicit subscription_id,
\* resource_group and name do not matter: the construction has the outcome
\* and identity it would have with any other explicit triple.
C11_ExplicitArgsIgnored ==
    (Constructed /\ ws_args.resource_id # NoneS)
    => \A e \in ExplicitTriples :
          Identity(ws) =
          Identity(Workspace_init(e[1], e[2], e[3], ws_args.resource_id,
                                  ws_args.location))

(***************************************************************************)
(* Properties of list_jobs                                                 *)
(***************************************************************************)
\* the job passes every filter the call supplied
PassesFilters(d) ==
    /\ listed.name_match # NoneS => Find(d.name, listed.name_match) >= 0
    /\ listed.status # None => d.status = listed.status
    /\ listed.created_after # NoDate
            => d.creation_time >= listed.created_after

\* positions of the listing whose job passes the filters
Passing == {i \in 1..Len(listed.listing) : PassesFilters(listed.listing[i])}

\* the k-th smallest member of a set of positions
Nth(S, k) == CHOOSE i \in S : Cardinality({j \in S : j < i}) = k - 1

\* C12: list_jobs returns the jobs of the listing that pass every supplied
\* filter, each once, in the order of the listing; with status=Succeeded
\* every returned job has cached status Succeeded.
C12_ListJobsFiltersInOrder ==
    listed # NoListing
    => /\ Len(listed.result) = Cardinality(Passing)
       /\ \A k \in 1..Len(listed.result) :
             /\ listed.result[k].details = listed.listing[Nth(Passing, k)]
             /\ listed.result[k].results = None
             /\ listed.status = "Succeeded"
                    => listed.result[k].details.status = "Succeeded"

C12_Witness ==
    /\ listed # NoListing
    /\ listed.status = "Succeeded"
    /\ listed.name_match = NoneS
    /\ Passing = {1, 3}
    /\ Len(listed.result) = 2
    /\ listed.result[1] # listed.result[2]

(***************************************************************************)
(* Properties of concurrent refreshes                                      *)
(***************************************************************************)
\* C20 as stated: once has_completed() is true on a Job, no step makes it
\* false, in whatever order the responses of concurrent refreshes are
\* applied.
C20_CompletedIsStable ==
    [][has_completed(details) => has_completed(details')]_vars

\* C20 amended: a refresh whose request was issued while has_completed()
\* was true leaves has_completed() true when its response is applied.
C20_CompletedStableForLaterRefresh ==
    [][\A i \in DOMAIN tasks :
          (/\ tasks[i].pc = "replied"
           /\ tasks'[i].pc = "done"
           /\ tasks[i].issued_completed)
          => has_completed(details')]_vars

C20_Witness ==
    \E i, j \in DOMAIN tasks :
        /\ tasks[i].pc = "done"
        /\ tasks[i].issued_completed
        /\ has_completed(details)
        /\ tasks[j].pc = "replied"
        /\ ~has_completed(tasks[j].resp)

====
